---- MODULE Spec2Model ----
(***************************************************************************)
(* A model of the hybrid retrieval engine of real-estate-rag:              *)
(*   - FAISSStorage (faiss_storage.py): the vector store, its metadata     *)
(*     list and the two files it persists to;                              *)
(*   - PDFProcessor.extract_text_chunks (pdf_processor.py): the chunker;   *)
(*   - RAGSystem.build_knowledge_base and RAGSystem.query (rag_system.py): *)
(*     the builder and the query engine.                                   *)
(* The specifications share the variables:                                 *)
(*   Spec      whole calls on the store the program holds (the             *)
(*             constructor, add_embeddings, search, save, load), one call  *)
(*             per step; SpecGrow is Spec without save and load;           *)
(*   SpecConc  two threads calling add_embeddings and search on one store, *)
(*             one source statement per step;                              *)
(*   SpecChunk one run of extract_text_chunks, one block per step;         *)
(*   SpecRag   whole calls of build_knowledge_base and query, and of        *)
(*             add_embeddings on the store they use, one call per step.    *)
(***************************************************************************)
EXTENDS Integers, Sequences, FiniteSets, TLC

(***************************************************************************)
(* The store: FAISSStorage.                                                *)
(***************************************************************************)
\* self.dimension: the stores of the model are constructed with dimension 1
Dim == 1
\* the values a coordinate of a vector takes
Coords == {0, 1}
\* longest list passed to one add_embeddings call
MaxBatch == 2
\* most vectors (and most metadata entries) a store is grown to
MaxN == 2
\* search is called with k in 1..MaxK
MaxK == 2

Meta == {"a", "b"}
Paths == {"knowledge_base.index"}
Threads == {1, 2}

\* a file that does not exist
NoMetaFile == [exists |-> FALSE, json |-> <<>>]
NoIndexFile == [exists |-> FALSE, xb |-> <<>>]
NoStore == [index |-> <<>>, metadata |-> <<>>]
\* the thread is not inside a call
NotReading == [nvec |-> 0, nmeta |-> 0]

(***************************************************************************)
(* Values.                                                                 *)
(***************************************************************************)
\* the vectors of dimension d
Vecs(d) == [1..d -> Coords]
\* what a caller may pass as one embedding: a vector of the store's
\* dimension, or one that is a coordinate too long
InVecs == Vecs(Dim) \cup {[i \in 1..(Dim + 1) |-> 0]}
SeqsUpTo(S, n) == UNION {[1..l -> S] : l \in 0..n}

VARIABLES
    index,      \* the vectors of the store's IndexFlatL2, in insertion order
    metadata,   \* the store's metadata list
    indexFile,  \* indexFile[p]: the index file at path p
    metaFile,   \* the file faiss_metadata.json
    saved,      \* saved[p]: the fields of the store that wrote indexFile[p], as they were at that save
    desync,     \* the store was loaded with unequal counts and not constructed anew since
    validAdds,  \* every add so far was given two lists of the same length
    last,       \* the last call and its outcome
    pc,         \* SpecConc: pc[t], the statement thread t is at
    pending,    \* SpecConc: pending[t], the metadata list thread t's add has yet to append
    hits,       \* SpecConc: hits[t], what index.search returned to thread t's search
    seen,       \* SpecConc: seen[t], the two counts of the store when thread t's call read it first
    out,        \* SpecConc: out[t], how thread t's last call ended
    \* SpecChunk: the locals of extract_text_chunks
    chunk_size, chunks, current_section, current_subsection, current_chunk,
    chunk_metadata, page_num,
    atPageStart,    \* no block of page page_num was read yet
    returned,       \* extract_text_chunks has returned chunks
    blocksRead,     \* the blocks read so far: the page, the block_text and the block of each
    current_blocks, \* the blocks (positions in blocksRead) whose text went into current_chunk
    chunk_blocks,   \* chunk_blocks[i]: the same for chunks[i]
    ragCall         \* SpecRag: the last call of build_knowledge_base or query and its outcome

storeVars == <<index, metadata, indexFile, metaFile, saved, desync, validAdds, last>>
concVars == <<pc, pending, hits, seen, out>>
chunkVars == <<chunk_size, chunks, current_section, current_subsection, current_chunk,
               chunk_metadata, page_num, atPageStart, returned, blocksRead,
               current_blocks, chunk_blocks>>
ragVars == <<ragCall>>
vars == <<storeVars, concVars, chunkVars, ragVars>>

(***************************************************************************)
(* numpy / faiss / json / Python list operations used by the store.        *)
(***************************************************************************)
RECURSIVE SumSq(_, _, _)
SumSq(a, b, i) ==
    IF i = 0 THEN 0 ELSE (a[i] - b[i]) * (a[i] - b[i]) + SumSq(a, b, i - 1)

\* squared Euclidean distance, as IndexFlatL2 computes it
SqDist(a, b) == SumSq(a, b, Len(a))

\* the distance faiss reports for a result slot it could not fill: the
\* largest float, above every distance between two vectors
FLT_MAX == Dim * Cardinality(Coords) * Cardinality(Coords) + 1

\* np.vstack raises on an empty list and on rows of different lengths
VstackOk(embeddings) ==
    /\ Len(embeddings) > 0
    /\ \A i, j \in 1..Len(embeddings) : Len(embeddings[i]) = Len(embeddings[j])

\* index.add asserts that the rows have the index's dimension
IndexAddOk(embeddings) == \A i \in 1..Len(embeddings) : Len(embeddings[i]) = Dim

\* entry i comes before entry j in the result order: nearer first, ties by
\* insertion order
Before(d, i, j) == d[i] < d[j] \/ (d[i] = d[j] /\ i < j)

Rank(d, i) == Cardinality({j \in DOMAIN d : Before(d, j, i)}) + 1

\* index.search(query, k): k slots, the nearest stored vectors first with
\* their 0-based labels, the slots beyond the stored vectors padded with
\* label -1 and distance FLT_MAX
IndexSearch(idx, q, k) ==
    LET d == [i \in 1..Len(idx) |-> SqDist(idx[i], q)]
    IN  [r \in 1..k |->
            IF r <= Len(idx)
            THEN LET i == CHOOSE i \in 1..Len(idx) : Rank(d, i) = r
                 IN  [dist |-> d[i], label |-> i - 1]
            ELSE [dist |-> FLT_MAX, label |-> -1]]

\* Python's list[i] for an integer i: negative i counts from the end
PyInRange(lst, i) == IF i >= 0 THEN i < Len(lst) ELSE -i <= Len(lst)
PyGetItem(lst, i) == IF i >= 0 THEN lst[i + 1] ELSE lst[Len(lst) + i + 1]

\* json.dump of the metadata list and json.load of the file
JsonDump(lst) == [exists |-> TRUE, json |-> lst]
JsonLoad(file) == file.json

\* faiss.write_index and faiss.read_index
WriteIndex(idx) == [exists |-> TRUE, xb |-> idx]
ReadIndex(file) == file.xb

\* FAISSStorage.search as a function of the store's fields: the list of
\* (distance, metadata) pairs it returns, or the IndexError it raises when a
\* label the index returned is outside the metadata list
SearchResult(idx, md, q, k) ==
    LET labels == IndexSearch(idx, q, k)
    IN  IF \A r \in 1..k : PyInRange(md, labels[r].label)
        THEN [exc |-> "none",
              items |-> [r \in 1..k |-> <<labels[r].dist, PyGetItem(md, labels[r].label)>>]]
        ELSE [exc |-> "IndexError", items |-> <<>>]

(***************************************************************************)
(* The chunker: PDFProcessor.extract_text_chunks.                          *)
(* A text is a sequence of characters. "#" stands for the check mark the   *)
(* source looks for. None is written as the empty text: the section and    *)
(* subsection the code stores are stripped texts of blocks that are not    *)
(* empty, so no stored text is empty.                                      *)
(***************************************************************************)
\* most blocks in a document
MaxBlocks == 3
\* most pages in a document
MaxPages == 2

\* the chunk_size argument
ChunkSizes == {2, 4}

None == <<>>
CheckMark == "#"
Digits == {"0", "1", "2", "3", "4", "5", "6", "7", "8", "9"}
Whitespace == {" "}

\* spans, lines and blocks as page.get_text("dict") gives them
Span(text, font, size) == [text |-> text, font |-> font, size |-> size]
Line(spans) == [hasSpans |-> TRUE, spans |-> spans]
LineWithoutSpans == [hasSpans |-> FALSE, spans |-> <<>>]
TextBlock(lines) == [hasLines |-> TRUE, lines |-> lines]
ImageBlock == [hasLines |-> FALSE, lines |-> <<>>]

\* the blocks the documents of the model are made of
Blocks ==
    { ImageBlock,
      TextBlock(<<Line(<<Span(<<" ">>, "Body", 10)>>)>>),
      TextBlock(<<Line(<<Span(<<"a">>, "Body", 10)>>)>>),
      TextBlock(<<Line(<<Span(<<"a">>, "Body", 10), Span(<<"b">>, "Body", 10)>>),
                  Line(<<Span(<<"c">>, "Body", 10)>>)>>),
      TextBlock(<<Line(<<Span(<<" ", "7">>, "Body", 10), Span(<<"c">>, "Body", 10)>>)>>),
      TextBlock(<<Line(<<Span(<<"1", "s">>, "Bold", 14)>>)>>),
      TextBlock(<<Line(<<Span(<<"#", "u">>, "Bold", 14)>>)>>),
      TextBlock(<<Line(<<Span(<<"#", "2">>, "Bold", 14)>>)>>),
      TextBlock(<<LineWithoutSpans, Line(<<Span(<<"3", "t">>, "Bold", 14)>>)>>) }

\* sep.join(texts)
RECURSIVE Join(_, _)
Join(sep, texts) ==
    IF texts = <<>> THEN <<>>
    ELSE IF Len(texts) = 1 THEN texts[1]
    ELSE texts[1] \o sep \o Join(sep, Tail(texts))

\* text.strip()
RECURSIVE LStrip(_)
LStrip(text) ==
    IF text # <<>> /\ text[1] \in Whitespace THEN LStrip(Tail(text)) ELSE text

RECURSIVE RStrip(_)
RStrip(text) ==
    IF text # <<>> /\ text[Len(text)] \in Whitespace
    THEN RStrip(SubSeq(text, 1, Len(text) - 1)) ELSE text

Strip(text) == RStrip(LStrip(text))

\* lines 31-32: the spans of a line joined by spaces, the lines that have
\* spans joined by spaces
HasSpans(line) == line.hasSpans
SpanTexts(line) == [i \in 1..Len(line.spans) |-> line.spans[i].text]
BlockText(block) ==
    LET withSpans == SelectSeq(block.lines, HasSpans)
    IN  Join(<<" ">>, [i \in 1..Len(withSpans) |-> Join(<<" ">>, SpanTexts(withSpans[i]))])

\* lines 42-43: font and size of the first span of the first line, "" and 0
\* when the first line has no spans
FirstSpanHas(block) == block.lines # <<>> /\ block.lines[1].hasSpans
Font(block) == IF FirstSpanHas(block) THEN block.lines[1].spans[1].font ELSE ""
FontSize(block) == IF FirstSpanHas(block) THEN block.lines[1].spans[1].size ELSE 0

HasDigit(text) == \E i \in 1..Len(text) : text[i] \in Digits
HasCheckMark(text) == \E i \in 1..Len(text) : text[i] = CheckMark

\* a section header told by its digit alone, whatever the font size
IsSectionAnySize(block) == HasDigit(BlockText(block))

\* lines 46-53: header detection
IsSection(block) == FontSize(block) > 12 /\ HasDigit(BlockText(block))
IsSubsection(block) ==
    FontSize(block) > 12 /\ ~HasDigit(BlockText(block)) /\ HasCheckMark(BlockText(block))

\* a test of the block's length alone
FitsAlone(buffer, block_text, size) == Len(block_text) <= size

\* line 67: the block fits into the current chunk
Fits(buffer, block_text, size) == Len(buffer) + Len(block_text) <= size
\* lines 68 and 77: the buffer with the block appended, and a buffer begun with it
AppendBlock(buffer, block_text) == buffer \o block_text \o <<" ">>
\* a buffer begun empty, without the block that did not fit
NewBufferEmpty(block_text) == <<>>
NewBuffer(block_text) == block_text \o <<" ">>

\* a chunk whose metadata name no section
ChunkWithoutSection(buffer, md) ==
    [text |-> Strip(buffer), source |-> "PDF", metadata |-> <<[md EXCEPT !.section = None]>>]

\* lines 72-76 and 81-85: the chunk appended to chunks
Chunk(buffer, md) == [text |-> Strip(buffer), source |-> "PDF", metadata |-> <<md>>]

\* chunk_metadata before its first assignment
Unbound == [page |-> 0, section |-> None, subsection |-> None, is_header |-> FALSE,
            is_subsection |-> FALSE, font |-> "", font_size |-> 0]

InitChunk ==
    /\ chunk_size \in ChunkSizes
    /\ chunks = <<>>
    /\ current_section = None
    /\ current_subsection = None
    /\ current_chunk = <<>>
    /\ chunk_metadata = Unbound
    /\ page_num = 0
    /\ atPageStart = TRUE
    /\ returned = FALSE
    /\ blocksRead = <<>>
    /\ current_blocks = <<>>
    /\ chunk_blocks = <<>>

(***************************************************************************)
(* The builder and the query engine: RAGSystem (rag_system.py), with the   *)
(* rows PropertyProcessor hands it (data_processor.py). A dict is a record *)
(* or function whose DOMAIN is its keys; a float is written as the integer *)
(* it equals.                                                              *)
(***************************************************************************)
\* k of the search a query makes
K == 20

UpperCase == <<"A", "B", "C", "D", "E", "F", "G", "H", "I", "J", "K", "L", "M",
               "N", "O", "P", "Q", "R", "S", "T", "U", "V", "W", "X", "Y", "Z">>
LowerCase == <<"a", "b", "c", "d", "e", "f", "g", "h", "i", "j", "k", "l", "m",
               "n", "o", "p", "q", "r", "s", "t", "u", "v", "w", "x", "y", "z">>
DigitChars == <<"0", "1", "2", "3", "4", "5", "6", "7", "8", "9">>

\* text.lower()
LowerOf == [c \in {UpperCase[i] : i \in 1..Len(UpperCase)} |->
               LowerCase[CHOOSE i \in 1..Len(UpperCase) : UpperCase[i] = c]]
LowerChar(c) == IF c \in DOMAIN LowerOf THEN LowerOf[c] ELSE c
Lower(text) == [i \in 1..Len(text) |-> LowerChar(text[i])]

\* text.split(): the maximal runs of characters that are not whitespace
RECURSIVE Split(_)
Split(text) ==
    LET t == LStrip(text)
        stop == IF \E i \in 1..Len(t) : t[i] \in Whitespace
                THEN CHOOSE i \in 1..Len(t) :
                         t[i] \in Whitespace /\ \A j \in 1..(i - 1) : t[j] \notin Whitespace
                ELSE Len(t) + 1
    IN  IF t = <<>> THEN <<>>
        ELSE <<SubSeq(t, 1, stop - 1)>> \o Split(SubSeq(t, stop, Len(t)))

\* keyword in text, for two strings
Contains(keyword, text) ==
    \E i \in 0..(Len(text) - Len(keyword)) : SubSeq(text, i + 1, i + Len(keyword)) = keyword

\* str(x) of a float x that is a whole number below 1e16
RECURSIVE IntStr(_)
IntStr(n) ==
    IF n < 10 THEN <<DigitChars[n + 1]>>
    ELSE IntStr(n \div 10) \o <<DigitChars[(n % 10) + 1]>>
FloatStr(x) == IntStr(x) \o <<".", "0">>

\* the rows of the frame preprocess_csv returns: prices and BHK are floats,
\* amenities and nearby are lists
RowP1 ==
    [PropertyID |-> <<"P", "1">>, Location |-> <<"D", "o", "w", "n", "t", "o", "w", "n">>,
     BHK |-> 2, StartPrice |-> 5000000, Furnishing |-> <<"S", "e", "m", "i">>,
     Amenities |-> << <<"G", "y", "m">> >>, Nearby |-> << <<"M", "e", "t", "r", "o">> >>]
RowP2 ==
    [PropertyID |-> <<"P", "2">>, Location |-> <<"S", "u", "b", "u", "r", "b">>,
     BHK |-> 3, StartPrice |-> 8000000, Furnishing |-> <<"F", "u", "l", "l">>,
     Amenities |-> <<>>, Nearby |-> <<>>]
\* the frames the builder is given
Frames == {<<>>, <<RowP1>>, <<RowP1, RowP2>>}

\* create_property_metadata(row)
CreatePropertyMetadata(row) ==
    [property_id |-> row.PropertyID, location |-> row.Location, bhk |-> row.BHK,
     price |-> row.StartPrice, furnishing |-> row.Furnishing,
     amenities |-> row.Amenities, nearby |-> row.Nearby]

\* the chunks extract_text_chunks returns to the builder
PdfChunks ==
    << Chunk(<<"N", "o", " ", "P", "e", "t", "s", " ">>,
            [page |-> 1, section |-> <<"1", " ", "R", "u", "l", "e", "s">>, subsection |-> None,
             is_header |-> FALSE, is_subsection |-> FALSE, font |-> "Body", font_size |-> 10]),
      Chunk(<<"N", "e", "a", "r", " ", "M", "e", "t", "r", "o", " ">>,
            [page |-> 2, section |-> None, subsection |-> <<"#", " ", "T", "r", "a", "v", "e", "l">>,
             is_header |-> FALSE, is_subsection |-> FALSE, font |-> "Body", font_size |-> 10]) >>
\* the lists of chunks the builder is given
Documents == {<<>>, <<PdfChunks[1]>>, PdfChunks}

\* lines 47-51 and 61-66: the metadata entries the builder makes
PropertyEntry(row) ==
    [source |-> "CSV", type |-> "property", metadata |-> CreatePropertyMetadata(row)]
PdfEntry(chunk) ==
    [source |-> "PDF", type |-> "guideline", text |-> chunk.text, metadata |-> chunk.metadata]

\* entries that lack a key, as add_embeddings accepts them from any caller
\* of the store: a property without location, a chunk without its metadata
\* list, a chunk whose metadata name no page, an entry without source
LooseEntries ==
    { [source |-> "CSV", type |-> "property", metadata |-> [property_id |-> <<"P", "3">>]],
      [source |-> "PDF", type |-> "guideline", text |-> <<"P", "e", "t", "s">>],
      [source |-> "PDF", type |-> "guideline", text |-> <<"p", "e", "t", "s">>,
       metadata |-> <<[section |-> None]>>],
      [type |-> "guideline", text |-> <<"p", "e", "t", "s">>] }

\* what openai.Embedding.create does with a text: a vector, or an error
\* raised (the vector field of the error is read by no statement)
EmbedFailed == [ok |-> FALSE, vector |-> [i \in 1..Dim |-> 0]]
EmbedOutcomes == {[ok |-> TRUE, vector |-> v] : v \in Vecs(Dim)} \cup {EmbedFailed}
\* what openai.ChatCompletion.create does with a prompt
GenOutcomes == {"ok", "OpenAIError"}

\* the texts asked
Queries ==
    { <<"f", "l", "a", "t", "s", " ", "D", "o", "w", "n", "t", "o", "w", "n">>,
      <<"P", "e", "t", "s">>,
      <<"m", "e", "t">>,
      <<"p", "o", "o", "l">> }

\* the strings query returns
NoInfoResponse == "I couldn't find any relevant information in the database for your query."
ErrorResponse == "Error generating response: OpenAIError"
Content == "content of the completion"
NoResponse == ""

HasKey(dict, key) == key \in DOMAIN dict
Elements(list) == {list[i] : i \in 1..Len(list)}

\* line 96: the set of the lower-cased words of the query
QueryKeywords(user_query) == {Lower(word) : word \in Elements(Split(user_query))}

\* lines 120-122: the evidence made of a chunk; dict.get gives '' for a
\* missing section or subsection
PdfEvidence(entry) ==
    LET md == entry.metadata[1]
    IN  [kind |-> "From PDF", page |-> md.page,
         section |-> IF HasKey(md, "section") THEN md.section ELSE <<>>,
         subsection |-> IF HasKey(md, "subsection") THEN md.subsection ELSE <<>>,
         text |-> entry.text]

Nothing == [context |-> <<>>, csv_properties |-> <<>>]

\* lines 99-128: one iteration of the loop over the results: what it
\* appends to context and to csv_properties. A KeyError (a missing key) and
\* every other exception (the IndexError of an empty metadata list) are
\* caught and the entry is passed over.
LoopStep(entry, query_keywords) ==
    IF ~HasKey(entry, "source") THEN Nothing
    ELSE IF entry.source = "CSV"
    THEN IF ~HasKey(entry, "metadata") THEN Nothing
         ELSE IF ~HasKey(entry.metadata, "property_id") THEN Nothing
         ELSE [Nothing EXCEPT !.csv_properties =
                   <<[id |-> entry.metadata.property_id, data |-> entry.metadata]>>]
    ELSE LET text == IF HasKey(entry, "text") THEN entry.text ELSE <<>>
         IN  IF text = <<>> THEN Nothing
             ELSE IF ~HasKey(entry, "metadata") THEN Nothing
             ELSE IF entry.metadata = <<>> THEN Nothing
             ELSE IF \E keyword \in query_keywords :
                         keyword \in {Lower(word) : word \in Elements(Split(text))}
             THEN IF ~HasKey(entry.metadata[1], "page") THEN Nothing
                  ELSE [Nothing EXCEPT !.context = <<PdfEvidence(entry)>>]
             ELSE Nothing

\* the lists of a list, one after the other
RECURSIVE Concat(_)
Concat(lists) == IF lists = <<>> THEN <<>> ELSE lists[1] \o Concat(Tail(lists))

\* lines 98-128: the loop over the results
Collect(results, query_keywords) ==
    LET steps == [i \in 1..Len(results) |-> LoopStep(results[i][2], query_keywords)]
    IN  [context |-> Concat([i \in 1..Len(results) |-> steps[i].context]),
         csv_properties |-> Concat([i \in 1..Len(results) |-> steps[i].csv_properties])]

\* lines 136-137: the keys the filter reads, and the string it makes
PropKeys == {"location", "bhk", "price", "amenities", "nearby"}
PropStr(prop_data) ==
    Lower(prop_data.location \o <<" ">> \o FloatStr(prop_data.bhk) \o <<" ">>
          \o FloatStr(prop_data.price) \o <<" ">>
          \o Join(<<" ">>, prop_data.amenities) \o <<" ">> \o Join(<<" ">>, prop_data.nearby))

\* a filter that keeps a property only when every word of the query is in it
AllKeywordsIn(keywords, prop_str) ==
    \A i \in 1..Len(keywords) : Contains(keywords[i], prop_str)

\* line 138: any(keyword in prop_str for keyword in query_lower.split())
AnyKeywordIn(keywords, prop_str) ==
    \E i \in 1..Len(keywords) : Contains(keywords[i], prop_str)

\* lines 143-148: the evidence made of a property
PropertyEvidence(prop_data) ==
    [kind |-> "Property ID", property_id |-> prop_data.property_id,
     location |-> prop_data.location, bhk |-> FloatStr(prop_data.bhk),
     price |-> FloatStr(prop_data.price),
     amenities |-> Join(<<",", " ">>, prop_data.amenities),
     nearby |-> Join(<<",", " ">>, prop_data.nearby)]

\* lines 134-148: the properties kept by the filter, rendered
FilteredEvidence(csv_properties, user_query) ==
    LET query_lower == Lower(user_query)
        keywords == Split(query_lower)
        Kept(prop) == AnyKeywordIn(keywords, PropStr(prop.data))
        filtered_properties == SelectSeq(csv_properties, Kept)
    IN  [i \in 1..Len(filtered_properties) |-> PropertyEvidence(filtered_properties[i].data)]

\* ragCall: the call (op, its arguments) and its outcome: exc the exception
\* it raised or "none", response the string a query returned, embedded
\* whether the embedding of the query was obtained, retrieved the entries
\* search returned, context the evidence list at line 151, generated whether
\* ChatCompletion.create was called, adds the calls of add_embeddings a
\* build made, wasEmpty whether the build began on an empty store; embedded
\* of a build: whether every embedding it asked for was obtained
NoRagCall == [op |-> "none", exc |-> "none", user_query |-> <<>>, embedded |-> FALSE,
              retrieved |-> {}, context |-> <<>>, generated |-> FALSE,
              response |-> NoResponse, rows |-> <<>>, pdf_chunks |-> <<>>,
              adds |-> <<>>, wasEmpty |-> FALSE]

(***************************************************************************)
(* The calls.                                                              *)
(***************************************************************************)
\* last: the call (op and its arguments: lensOk whether the two lists of an
\* add have the same length and dimsOk whether all its vectors have Dim
\* coordinates, embeddings and meta the lists of an add that succeeded, q
\* and k the arguments of a search, p the path of a load), ok whether it
\* returned, wasFresh whether a load was into a store as constructed
NoCall == [op |-> "none", ok |-> TRUE, lensOk |-> TRUE, dimsOk |-> TRUE,
           embeddings |-> <<>>, meta |-> <<>>, q |-> <<>>, k |-> 0,
           p |-> "", wasFresh |-> FALSE]

Init ==
    /\ index = <<>>
    /\ metadata = <<>>
    /\ indexFile = [p \in Paths |-> NoIndexFile]
    /\ metaFile = NoMetaFile
    /\ saved = [p \in Paths |-> NoStore]
    /\ desync = FALSE
    /\ validAdds = TRUE
    /\ last = NoCall
    /\ pc = [t \in Threads |-> "idle"]
    /\ pending = [t \in Threads |-> <<>>]
    /\ hits = [t \in Threads |-> <<>>]
    /\ seen = [t \in Threads |-> NotReading]
    /\ out = [t \in Threads |-> "none"]
    /\ InitChunk
    /\ ragCall = NoRagCall

\* FAISSStorage(): the program replaces its store by a new one
Construct ==
    /\ index' = <<>>
    /\ metadata' = <<>>
    /\ desync' = FALSE
    /\ last' = [NoCall EXCEPT !.op = "init"]
    /\ UNCHANGED <<indexFile, metaFile, saved, validAdds, concVars, chunkVars, ragVars>>

\* an index.add that puts the new rows before the stored ones
AddIndexInFront(idx, embeddings) == embeddings \o idx

\* the statements of add_embeddings
AddIndex(idx, embeddings) == idx \o embeddings
AddMetadata(md, meta) == md \o meta

\* add_embeddings(embeddings, meta)
Add(embeddings, meta) ==
    /\ Len(index) + Len(embeddings) <= MaxN
    /\ Len(metadata) + Len(meta) <= MaxN
    /\ validAdds' = (validAdds /\ Len(embeddings) = Len(meta))
    /\ IF VstackOk(embeddings) /\ IndexAddOk(embeddings)
       THEN /\ index' = AddIndex(index, embeddings)
            /\ metadata' = AddMetadata(metadata, meta)
            /\ metaFile' = JsonDump(AddMetadata(metadata, meta))
            /\ last' = [NoCall EXCEPT !.op = "add", !.ok = TRUE,
                            !.lensOk = (Len(embeddings) = Len(meta)), !.dimsOk = TRUE,
                            !.embeddings = embeddings, !.meta = meta]
       ELSE /\ UNCHANGED <<index, metadata, metaFile>>
            /\ last' = [NoCall EXCEPT !.op = "add", !.ok = FALSE,
                            !.lensOk = (Len(embeddings) = Len(meta)),
                            !.dimsOk = \A i \in 1..Len(embeddings) : Len(embeddings[i]) = Dim]
    /\ UNCHANGED <<indexFile, saved, desync, concVars, chunkVars, ragVars>>

\* search(q, k)
Search(q, k) ==
    /\ last' = [NoCall EXCEPT !.op = "search", !.q = q, !.k = k,
                    !.ok = (SearchResult(index, metadata, q, k).exc = "none")]
    /\ UNCHANGED <<index, metadata, indexFile, metaFile, saved, desync, validAdds, concVars, chunkVars, ragVars>>

\* save(path)
Save(p) ==
    /\ indexFile' = [indexFile EXCEPT ![p] = WriteIndex(index)]
    /\ saved' = [saved EXCEPT ![p] = [index |-> index, metadata |-> metadata]]
    /\ last' = [NoCall EXCEPT !.op = "save", !.p = p]
    /\ UNCHANGED <<index, metadata, metaFile, desync, validAdds, concVars, chunkVars, ragVars>>

\* load(path): read_index raises when the file does not exist
Load(p) ==
    /\ IF ~indexFile[p].exists
       THEN /\ UNCHANGED <<index, metadata, desync>>
            /\ last' = [NoCall EXCEPT !.op = "load", !.p = p, !.ok = FALSE]
       ELSE /\ index' = ReadIndex(indexFile[p])
            /\ metadata' = IF metaFile.exists THEN JsonLoad(metaFile) ELSE <<>>
            /\ desync' = (Len(index') # Len(metadata'))
            /\ last' = [NoCall EXCEPT !.op = "load", !.p = p, !.ok = TRUE,
                            !.wasFresh = (index = <<>> /\ metadata = <<>>)]
    /\ UNCHANGED <<indexFile, metaFile, saved, validAdds, concVars, chunkVars, ragVars>>

Next ==
    \/ Construct
    \/ \E e \in SeqsUpTo(InVecs, MaxBatch), m \in SeqsUpTo(Meta, MaxBatch) : Add(e, m)
    \/ \E q \in Vecs(Dim), k \in 1..MaxK : Search(q, k)
    \/ \E p \in Paths : Save(p)
    \/ \E p \in Paths : Load(p)

Spec == Init /\ [][Next]_vars

\* the store constructed, grown and searched, its index never saved or loaded
NextGrow ==
    \/ Construct
    \/ \E e \in SeqsUpTo(InVecs, MaxBatch), m \in SeqsUpTo(Meta, MaxBatch) : Add(e, m)
    \/ \E q \in Vecs(Dim), k \in 1..MaxK : Search(q, k)

SpecGrow == Init /\ [][NextGrow]_vars

(***************************************************************************)
(* SpecConc: add_embeddings and search called from two threads on the one  *)
(* store, a statement at a time. The class takes no lock, so a thread may  *)
(* be preempted between any two statements. The adds are given lists of    *)
(* equal length and vectors of Dim coordinates.                            *)
(***************************************************************************)
Counts == [nvec |-> Len(index), nmeta |-> Len(metadata)]

\* lines 21-22: np.vstack and self.index.add
AddVectors(t, embeddings, meta) ==
    /\ pc[t] = "idle"
    /\ Len(embeddings) = Len(meta)
    /\ Len(index) + Len(embeddings) <= MaxN
    /\ index' = AddIndex(index, embeddings)
    /\ pending' = [pending EXCEPT ![t] = meta]
    /\ seen' = [seen EXCEPT ![t] = Counts]
    /\ pc' = [pc EXCEPT ![t] = "extend"]
    /\ UNCHANGED <<metadata, indexFile, metaFile, saved, desync, validAdds, last, hits, out,
                   chunkVars, ragVars>>

\* line 23: self.metadata.extend
AddExtend(t) ==
    /\ pc[t] = "extend"
    /\ metadata' = AddMetadata(metadata, pending[t])
    /\ pending' = [pending EXCEPT ![t] = <<>>]
    /\ pc' = [pc EXCEPT ![t] = "dump"]
    /\ UNCHANGED <<index, indexFile, metaFile, saved, desync, validAdds, last, hits, seen, out,
                   chunkVars, ragVars>>

\* lines 26-27: json.dump of self.metadata, and the return
AddDump(t) ==
    /\ pc[t] = "dump"
    /\ metaFile' = JsonDump(metadata)
    /\ seen' = [seen EXCEPT ![t] = NotReading]
    /\ pc' = [pc EXCEPT ![t] = "idle"]
    /\ out' = [out EXCEPT ![t] = "returned"]
    /\ UNCHANGED <<index, metadata, indexFile, saved, desync, validAdds, last, pending, hits,
                   chunkVars, ragVars>>

\* lines 40-41: self.index.search
SearchIndex(t, q, k) ==
    /\ pc[t] = "idle"
    /\ hits' = [hits EXCEPT ![t] = IndexSearch(index, q, k)]
    /\ seen' = [seen EXCEPT ![t] = Counts]
    /\ pc' = [pc EXCEPT ![t] = "collect"]
    /\ UNCHANGED <<storeVars, pending, out, chunkVars, ragVars>>

\* lines 43-47: the loop over the labels, reading self.metadata, and the return
SearchCollect(t) ==
    /\ pc[t] = "collect"
    /\ out' = [out EXCEPT ![t] =
                  IF \A r \in 1..Len(hits[t]) : PyInRange(metadata, hits[t][r].label)
                  THEN "returned" ELSE "IndexError"]
    /\ hits' = [hits EXCEPT ![t] = <<>>]
    /\ seen' = [seen EXCEPT ![t] = NotReading]
    /\ pc' = [pc EXCEPT ![t] = "idle"]
    /\ UNCHANGED <<storeVars, pending, chunkVars, ragVars>>

NextConc ==
    \/ \E t \in Threads, n \in 1..MaxBatch :
          \E e \in [1..n -> Vecs(Dim)], m \in [1..n -> Meta] : AddVectors(t, e, m)
    \/ \E t \in Threads : AddExtend(t)
    \/ \E t \in Threads : AddDump(t)
    \/ \E t \in Threads, q \in Vecs(Dim), k \in 1..MaxK : SearchIndex(t, q, k)
    \/ \E t \in Threads : SearchCollect(t)

SpecConc == Init /\ [][NextConc]_vars

(***************************************************************************)
(* SpecChunk: one call of extract_text_chunks. The document is read as the *)
(* call goes: each step reads the next block of the current page, ends the *)
(* page, or (at a page boundary) ends the document.                        *)
(***************************************************************************)
\* lines 29-77: one iteration of the loop over the blocks of the page
ProcessBlock(block) ==
    /\ ~returned
    /\ page_num < MaxPages
    /\ Len(blocksRead) < MaxBlocks
    /\ LET block_text == IF block.hasLines THEN BlockText(block) ELSE <<>>
           id == Len(blocksRead) + 1
       IN  /\ blocksRead' = Append(blocksRead, [page |-> page_num + 1, text |-> block_text,
                                                  block |-> block])
           /\ atPageStart' = FALSE
           /\ IF ~block.hasLines \/ Strip(block_text) = <<>>
              THEN UNCHANGED <<chunks, current_section, current_subsection, current_chunk,
                               chunk_metadata, current_blocks, chunk_blocks>>
              ELSE LET section == IF IsSection(block) THEN Strip(block_text)
                                  ELSE current_section
                       subsection == IF IsSection(block) THEN None
                                     ELSE IF IsSubsection(block) THEN Strip(block_text)
                                     ELSE current_subsection
                       md == [page |-> page_num + 1,
                              section |-> section,
                              subsection |-> subsection,
                              is_header |-> IsSection(block),
                              is_subsection |-> IsSubsection(block),
                              font |-> Font(block),
                              font_size |-> FontSize(block)]
                   IN  /\ current_section' = section
                       /\ current_subsection' = subsection
                       /\ chunk_metadata' = md
                       /\ IF Fits(current_chunk, block_text, chunk_size)
                          THEN /\ current_chunk' = AppendBlock(current_chunk, block_text)
                               /\ current_blocks' = Append(current_blocks, id)
                               /\ UNCHANGED <<chunks, chunk_blocks>>
                          ELSE /\ IF Strip(current_chunk) # <<>>
                                  THEN /\ chunks' = Append(chunks, Chunk(current_chunk, md))
                                       /\ chunk_blocks' = Append(chunk_blocks, current_blocks)
                                  ELSE UNCHANGED <<chunks, chunk_blocks>>
                               /\ current_chunk' = NewBuffer(block_text)
                               /\ current_blocks' = <<id>>
    /\ UNCHANGED <<chunk_size, page_num, returned, storeVars, concVars, ragVars>>

\* lines 79-86: the end of the page
EndPage ==
    /\ ~returned
    /\ page_num < MaxPages
    /\ IF Strip(current_chunk) # <<>>
       THEN /\ chunks' = Append(chunks, Chunk(current_chunk, chunk_metadata))
            /\ chunk_blocks' = Append(chunk_blocks, current_blocks)
            /\ current_chunk' = <<>>
            /\ current_blocks' = <<>>
       ELSE UNCHANGED <<chunks, chunk_blocks, current_chunk, current_blocks>>
    /\ page_num' = page_num + 1
    /\ atPageStart' = TRUE
    /\ UNCHANGED <<chunk_size, current_section, current_subsection, chunk_metadata, returned,
                   blocksRead, storeVars, concVars, ragVars>>

\* lines 88-89: the document has no further page
Return ==
    /\ ~returned
    /\ atPageStart
    /\ returned' = TRUE
    /\ UNCHANGED <<chunk_size, chunks, current_section, current_subsection, current_chunk,
                   chunk_metadata, page_num, atPageStart, blocksRead, current_blocks,
                   chunk_blocks, storeVars, concVars, ragVars>>

NextChunk ==
    \/ \E block \in Blocks : ProcessBlock(block)
    \/ EndPage
    \/ Return

SpecChunk == Init /\ [][NextChunk]_vars

(***************************************************************************)
(* SpecRag: calls of build_knowledge_base and query on one RAGSystem, and  *)
(* of add_embeddings on its store by other callers, one call per step.     *)
(* The embedding and the completion services answer as they choose.        *)
(***************************************************************************)
\* a service that hands back a vector where the call failed
EmbeddingNeverRaises(outcomes) == FALSE

\* lines 45, 59 and 86: generate_embedding has no handler, the first failed
\* call raises out of the method that made it
EmbeddingRaises(outcomes) == \E i \in 1..Len(outcomes) : ~outcomes[i].ok

\* the chunks before the properties
PdfFirst(property_list, pdf_list) == pdf_list \o property_list

\* lines 69-70: the properties, then the chunks
AllOf(property_list, pdf_list) == property_list \o pdf_list

\* build_knowledge_base(), the frame holding rows and the document giving
\* pdf_chunks; outcomes[i] is what the embedding service does with item i
BuildKnowledgeBase(rows, pdf_chunks, outcomes) ==
    LET n == Len(rows)
        property_embeddings == [i \in 1..n |-> outcomes[i].vector]
        property_metadata == [i \in 1..n |-> PropertyEntry(rows[i])]
        pdf_embeddings == [i \in 1..Len(pdf_chunks) |-> outcomes[n + i].vector]
        pdf_metadata == [i \in 1..Len(pdf_chunks) |-> PdfEntry(pdf_chunks[i])]
        all_embeddings == AllOf(property_embeddings, pdf_embeddings)
        all_metadata == AllOf(property_metadata, pdf_metadata)
        call == [NoRagCall EXCEPT !.op = "build", !.rows = rows, !.pdf_chunks = pdf_chunks,
                                  !.embedded = \A i \in 1..Len(outcomes) : outcomes[i].ok,
                                  !.wasEmpty = (index = <<>> /\ metadata = <<>>)]
    IN  /\ Len(outcomes) = n + Len(pdf_chunks)
        /\ Len(index) + Len(outcomes) <= MaxN
        /\ Len(metadata) + Len(outcomes) <= MaxN
        /\ IF EmbeddingRaises(outcomes)
           THEN /\ ragCall' = [call EXCEPT !.exc = "OpenAIError"]
                /\ UNCHANGED <<index, metadata, indexFile, metaFile, saved>>
           ELSE IF ~(VstackOk(all_embeddings) /\ IndexAddOk(all_embeddings))
           THEN /\ ragCall' = [call EXCEPT !.exc = "ValueError",
                                           !.adds = <<[embeddings |-> all_embeddings,
                                                       meta |-> all_metadata]>>]
                /\ UNCHANGED <<index, metadata, indexFile, metaFile, saved>>
           ELSE /\ ragCall' = [call EXCEPT !.adds = <<[embeddings |-> all_embeddings,
                                                       meta |-> all_metadata]>>]
                /\ index' = AddIndex(index, all_embeddings)
                /\ metadata' = AddMetadata(metadata, all_metadata)
                /\ metaFile' = JsonDump(metadata')
                /\ indexFile' = [indexFile EXCEPT !["knowledge_base.index"] = WriteIndex(index')]
                /\ saved' = [saved EXCEPT !["knowledge_base.index"] =
                                [index |-> index', metadata |-> metadata']]
        /\ UNCHANGED <<desync, validAdds, last, concVars, chunkVars>>

\* query(user_query); embedding is what the embedding service does with
\* the query, generation what the completion service does with the prompt
Query(user_query, embedding, generation) ==
    \E results \in {SearchResult(index, metadata, embedding.vector, K)} :
    \E found \in {Collect(results.items, QueryKeywords(user_query))} :
        LET call == [NoRagCall EXCEPT !.op = "query", !.user_query = user_query,
                                      !.embedded = embedding.ok]
            context == found.context \o FilteredEvidence(found.csv_properties, user_query)
            retrieved == {results.items[r][2] : r \in 1..Len(results.items)}
        IN  /\ ragCall' =
                  IF EmbeddingRaises(<<embedding>>)
                  THEN [call EXCEPT !.exc = "OpenAIError"]
                  ELSE IF results.exc # "none"
                  THEN [call EXCEPT !.exc = results.exc]
                  ELSE IF \E i \in 1..Len(found.csv_properties) :
                              ~(PropKeys \subseteq DOMAIN found.csv_properties[i].data)
                  THEN [call EXCEPT !.retrieved = retrieved, !.exc = "KeyError"]
                  ELSE IF context = <<>>
                  THEN [call EXCEPT !.retrieved = retrieved, !.response = NoInfoResponse]
                  ELSE [call EXCEPT !.retrieved = retrieved, !.context = context,
                                    !.generated = TRUE,
                                    !.response = IF generation = "ok" THEN Content
                                                 ELSE ErrorResponse]
            /\ UNCHANGED <<storeVars, concVars, chunkVars>>

NextRag ==
    \/ \E rows \in Frames, pdf_chunks \in Documents :
          \E outcomes \in [1..(Len(rows) + Len(pdf_chunks)) -> EmbedOutcomes] :
              BuildKnowledgeBase(rows, pdf_chunks, outcomes)
    \/ \E entry \in LooseEntries : Add(<<[i \in 1..Dim |-> 0]>>, <<entry>>)
    \/ \E user_query \in Queries, embedding \in EmbedOutcomes, generation \in GenOutcomes :
          Query(user_query, embedding, generation)

SpecRag == Init /\ [][NextRag]_vars

(***************************************************************************)
(* Properties of the store, checked under Spec.                            *)
(***************************************************************************)
IsPrefix(a, b) == Len(a) <= Len(b) /\ \A i \in 1..Len(a) : b[i] = a[i]
Min(a, b) == IF a <= b THEN a ELSE b

\* C1: through every add, save and load the store holds as many vectors as
\* metadata entries, and what it held before the call is still there, in
\* the same places.
C1_LengthsAgreeAppendOnly ==
    [][last'.op \in {"add", "save", "load"} =>
          /\ Len(index') = Len(metadata')
          /\ IsPrefix(index, index')
          /\ IsPrefix(metadata, metadata')]_vars

\* C2: a search with k on a store of N entries returns min(k, N) results,
\* each a distinct stored entry with the metadata at its own position, in
\* non-decreasing distance order.
C2_SearchReturnsMinKN ==
    (last.op = "search" /\ Len(index) = Len(metadata)) =>
        LET r == SearchResult(index, metadata, last.q, last.k)
            N == Len(index)
        IN  /\ r.exc = "none"
            /\ Len(r.items) = Min(last.k, N)
            /\ \E f \in [1..Len(r.items) -> 1..N] :
                   /\ \A i, j \in 1..Len(r.items) : i # j => f[i] # f[j]
                   /\ \A i \in 1..Len(r.items) :
                          r.items[i] = <<SqDist(index[f[i]], last.q), metadata[f[i]]>>
            /\ \A i \in 1..(Len(r.items) - 1) : r.items[i][1] <= r.items[i + 1][1]

\* C3: an add whose two lists differ in length, or with a vector that has
\* not Dim coordinates, raises and leaves the vectors, the metadata list and
\* the metadata file as they were.
C3_BadAddRejected ==
    [][(last'.op = "add" /\ (~last'.lensOk \/ ~last'.dimsOk)) =>
          (~last'.ok /\ index' = index /\ metadata' = metadata /\ metaFile' = metaFile)]_vars

\* C4: once a load has left the store with unequal counts of vectors and
\* metadata entries, every search raises until the store is constructed anew
\* (here: also when every add was given lists of equal length).
C4_DesyncSearchRaises ==
    (last.op = "search" /\ desync /\ validAdds) => ~last.ok

\* C5: a load into a store as constructed gives a store whose every search
\* returns what the same search returned on the store that saved the file,
\* whatever adds came between that store's last add and the load (here: for
\* every k up to the number of saved entries, and when every add was given
\* lists of equal length).
C5_RoundTrip ==
    (last.op = "load" /\ last.ok /\ last.wasFresh /\ validAdds) =>
        \A q \in Vecs(Dim), k \in 1..Min(MaxK, Len(saved[last.p].index)) :
            SearchResult(index, metadata, q, k)
                = SearchResult(saved[last.p].index, saved[last.p].metadata, q, k)

\* C6: no add and no search of a thread reads the store while the vectors
\* of another thread's batch are in the index and its metadata entries are
\* not yet in the list: the two counts it finds are equal.
C6_NoPartialAdd ==
    \A t \in Threads : seen[t].nvec = seen[t].nmeta

\* text without its whitespace
NotWhitespace(c) == c \notin Whitespace
NoSpace(text) == SelectSeq(text, NotWhitespace)

\* the texts of the blocks read on page p, and of the chunks whose metadata
\* names page p, each in order
BlockTextsOfPage(p) ==
    LET OnPage(b) == b.page = p
        bs == SelectSeq(blocksRead, OnPage)
    IN  [i \in 1..Len(bs) |-> bs[i].text]
ChunkTextsOfPage(p) ==
    LET OfPage(c) == c.metadata[1].page = p
        cs == SelectSeq(chunks, OfPage)
    IN  [i \in 1..Len(cs) |-> cs[i].text]
\* the texts of the blocks that went into chunk i
TextsInChunk(i) == [j \in 1..Len(chunk_blocks[i]) |-> blocksRead[chunk_blocks[i][j]].text]
\* the places where block id occurs in a chunk
PlacesOf(id) ==
    {ij \in (1..Len(chunks)) \X (1..MaxBlocks) :
        ij[2] <= Len(chunk_blocks[ij[1]]) /\ chunk_blocks[ij[1]][ij[2]] = id}

\* C9: for every page that was ended, the texts of its blocks in reading
\* order and the texts of its chunks in emission order are the same text up
\* to whitespace; every block of it that is not empty went into exactly one
\* chunk, and a chunk's text is the text of the blocks that went into it.
C9_NoTextLostOrDuplicated ==
    /\ \A p \in 1..page_num :
           NoSpace(Join(<<>>, BlockTextsOfPage(p))) = NoSpace(Join(<<>>, ChunkTextsOfPage(p)))
    /\ \A id \in 1..Len(blocksRead) :
           (blocksRead[id].page <= page_num /\ Strip(blocksRead[id].text) # <<>>) =>
               Cardinality(PlacesOf(id)) = 1
    /\ \A i \in 1..Len(chunks) :
           NoSpace(chunks[i].text) = NoSpace(Join(<<>>, TextsInChunk(i)))

\* the document was read to its end, a page of it gave two chunks and a
\* chunk of it holds two blocks
C9_Witness ==
    /\ returned
    /\ \E i, j \in 1..Len(chunks) :
           i # j /\ chunks[i].metadata[1].page = chunks[j].metadata[1].page
    /\ \E i \in 1..Len(chunks) : Len(chunk_blocks[i]) >= 2

C7_AddAppends ==
    [][(last'.op = "add" /\ last'.ok /\ last'.lensOk) =>
          LET n == Len(last'.embeddings)
          IN  /\ Len(index') = Len(index) + n
              /\ Len(metadata') = Len(metadata) + n
              /\ IsPrefix(index, index')
              /\ IsPrefix(metadata, metadata')
              /\ \A j \in 1..n :
                     /\ index'[Len(index) + j] = last'.embeddings[j]
                     /\ metadata'[Len(metadata) + j] = last'.meta[j]]_vars

\* a batch was appended to a store that already held an entry
C7_Witness ==
    /\ last.op = "add" /\ last.ok /\ last.lensOk
    /\ Len(index) > Len(last.embeddings)
    /\ Len(metadata) > Len(last.meta)

\* C8: whenever the index file and the metadata file both exist, they hold
\* the same number of entries, the entries of the store that was saved
\* (here: also when every add was given lists of equal length).
C8_FilesAgree ==
    \A p \in Paths :
        (indexFile[p].exists /\ metaFile.exists /\ validAdds) =>
            /\ Len(ReadIndex(indexFile[p])) = Len(JsonLoad(metaFile))
            /\ JsonLoad(metaFile) = saved[p].metadata

(***************************************************************************)
(* Properties of the chunker's headers and metadata, checked under         *)
(* SpecChunk.                                                              *)
(***************************************************************************)
\* the block read last, and whether this step read a block
LastRead(read) == read[Len(read)]
\* the section header blocks among the blocks read so far
SectionHeader(r) == FontSize(r.block) > 12 /\ HasDigit(r.text)
SectionHeadersRead == SelectSeq(blocksRead, SectionHeader)

\* C11: once a section header block with text H has been processed, every
\* chunk emitted by a later step that is not itself the processing of a
\* section header block has section H, on the header's page and on later
\* pages.
C11_SectionPropagates ==
    [][(/\ SectionHeadersRead # <<>>
        /\ Len(chunks') = Len(chunks) + 1
        /\ ~(Len(blocksRead') > Len(blocksRead) /\ SectionHeader(LastRead(blocksRead'))))
       => chunks'[Len(chunks')].metadata[1].section
              = Strip(LastRead(SectionHeadersRead).text)]_vars

\* a chunk of page 2 carries the section of a header read on page 1, no
\* section header having been read on page 2
C11_Witness ==
    /\ SectionHeadersRead # <<>>
    /\ \A i \in 1..Len(SectionHeadersRead) : SectionHeadersRead[i].page = 1
    /\ \E i \in 1..Len(chunks) :
           /\ chunks[i].metadata[1].page = 2
           /\ chunks[i].metadata[1].section = Strip(LastRead(SectionHeadersRead).text)

(***************************************************************************)
(* Properties of the builder and the query engine, checked under SpecRag.  *)
(***************************************************************************)
\* a stored entry that has every key the query reads of a property, and of
\* a chunk
IsRecordEntry(entry) ==
    /\ HasKey(entry, "source") /\ entry.source = "CSV" /\ HasKey(entry, "metadata")
    /\ (PropKeys \cup {"property_id"}) \subseteq DOMAIN entry.metadata
IsChunkEntry(entry) ==
    /\ HasKey(entry, "source") /\ entry.source = "PDF"
    /\ HasKey(entry, "text") /\ HasKey(entry, "metadata")
    /\ entry.metadata # <<>> /\ HasKey(entry.metadata[1], "page")

\* the lower-cased words of a text
Tokens(text) == {Lower(word) : word \in Elements(Split(text))}
\* the chunk shares a word with the query; a word of the query is within
\* the string made of the property
SharesToken(entry, user_query) == Tokens(entry.text) \cap Tokens(user_query) # {}
MatchesRecord(entry, user_query) ==
    \E token \in Tokens(user_query) : Contains(token, PropStr(entry.metadata))

\* C12: a query whose retrieved chunks share no word with it and whose
\* retrieved properties match none of its words returns the fixed "no
\* relevant information" string, and the completion service is not called
\* (here: when the embedding of the query was obtained and no entry of the
\* store lacks a key).
C12_NoMatchNoGeneration ==
    (/\ ragCall.op = "query"
     /\ ragCall.embedded
     /\ \A entry \in ragCall.retrieved : IsRecordEntry(entry) \/ IsChunkEntry(entry)
     /\ \A entry \in ragCall.retrieved :
            /\ IsChunkEntry(entry) => ~SharesToken(entry, ragCall.user_query)
            /\ IsRecordEntry(entry) => ~MatchesRecord(entry, ragCall.user_query))
    => (/\ ragCall.exc = "none"
        /\ ragCall.response = NoInfoResponse
        /\ ~ragCall.generated)

\* C13: when a query gets as far as its evidence list, a retrieved property
\* is in the list if and only if a lower-cased word of the query is within
\* the lower-cased string of its location, BHK, price, amenities and nearby
\* places; on the store of P1 (Downtown) and P2 (Suburb), a query with the
\* word "downtown" has P1 in the list and not P2.
C13_RecordFilter ==
    (ragCall.op = "query" /\ ragCall.exc = "none") =>
        /\ \A entry \in ragCall.retrieved :
               IsRecordEntry(entry) =>
                   (PropertyEvidence(entry.metadata) \in Elements(ragCall.context)
                        <=> MatchesRecord(entry, ragCall.user_query))
        /\ (/\ ragCall.retrieved = {PropertyEntry(RowP1), PropertyEntry(RowP2)}
            /\ <<"d", "o", "w", "n", "t", "o", "w", "n">> \in Tokens(ragCall.user_query))
           => /\ PropertyEvidence(CreatePropertyMetadata(RowP1)) \in Elements(ragCall.context)
              /\ PropertyEvidence(CreatePropertyMetadata(RowP2)) \notin Elements(ragCall.context)

\* a query of two words, one of them "downtown", was answered from the
\* store of P1 and P2 with P1 in its evidence
C13_Witness ==
    /\ ragCall.op = "query" /\ ragCall.exc = "none"
    /\ ragCall.retrieved = {PropertyEntry(RowP1), PropertyEntry(RowP2)}
    /\ Cardinality(Tokens(ragCall.user_query)) = 2
    /\ <<"d", "o", "w", "n", "t", "o", "w", "n">> \in Tokens(ragCall.user_query)
    /\ PropertyEvidence(CreatePropertyMetadata(RowP1)) \in Elements(ragCall.context)
    /\ ragCall.generated

\* C14: a build in which the embedding service fails for an item raises and
\* leaves the store's vectors and metadata, the index file and the metadata
\* file as they were.
C14_FailedBuildPersistsNothing ==
    [][(ragCall'.op = "build" /\ ragCall' # ragCall /\ ~ragCall'.embedded) =>
          /\ ragCall'.exc # "none"
          /\ ragCall'.adds = <<>>
          /\ index' = index
          /\ metadata' = metadata
          /\ indexFile' = indexFile
          /\ metaFile' = metaFile]_vars

\* a build of a property and a chunk failed on an embedding
C14_Witness ==
    /\ ragCall.op = "build" /\ ~ragCall.embedded
    /\ ragCall.rows # <<>> /\ ragCall.pdf_chunks # <<>>
    /\ ragCall.exc = "OpenAIError"

\* C15: no query raises the error of the embedding service or of the
\* completion service: a query whose embedding call failed returns a
\* string, as does one whose completion call failed.
C15_ServiceFailureReturnsMessage ==
    (ragCall.op = "query") =>
        /\ ragCall.exc # "OpenAIError"
        /\ ~ragCall.embedded => (ragCall.exc = "none" /\ ragCall.response # NoResponse)

\* C16: a build whose embeddings were all obtained calls add_embeddings
\* exactly once, with the entries of the rows in row order followed by the
\* entries of the chunks in chunk order and one vector for each; on a store
\* that was empty the entries then stand at these positions, which depend
\* on the rows and the chunks alone.
C16_BuildAddsOnceInOrder ==
    [][(ragCall'.op = "build" /\ ragCall' # ragCall /\ ragCall'.embedded) =>
          LET rows == ragCall'.rows
              pdf_chunks == ragCall'.pdf_chunks
              expected == [i \in 1..(Len(rows) + Len(pdf_chunks)) |->
                              IF i <= Len(rows) THEN PropertyEntry(rows[i])
                              ELSE PdfEntry(pdf_chunks[i - Len(rows)])]
          IN  /\ Len(ragCall'.adds) = 1
              /\ ragCall'.adds[1].meta = expected
              /\ Len(ragCall'.adds[1].embeddings) = Len(expected)
              /\ (ragCall'.wasEmpty /\ ragCall'.exc = "none") =>
                     /\ metadata' = expected
                     /\ index' = ragCall'.adds[1].embeddings]_vars

\* a build of properties and chunks filled the empty store
C16_Witness ==
    /\ ragCall.op = "build" /\ ragCall.exc = "none" /\ ragCall.wasEmpty
    /\ ragCall.rows # <<>> /\ ragCall.pdf_chunks # <<>>
    /\ Len(metadata) = Len(ragCall.rows) + Len(ragCall.pdf_chunks)
    /\ metadata[1].source = "CSV" /\ metadata[Len(metadata)].source = "PDF"

(***************************************************************************)
(* Properties of the chunker's metadata and header state, checked under    *)
(* SpecChunk.                                                              *)
(***************************************************************************)
\* C17: the metadata of every chunk are those of the last block whose text
\* is in the chunk: its page, its font and size, and whether it is a
\* section header or a subsection header.
C17_MetadataOfLastBlock ==
    \A i \in 1..Len(chunks) :
        LET read == blocksRead[chunk_blocks[i][Len(chunk_blocks[i])]]
            md == chunks[i].metadata[1]
        IN  /\ md.page = read.page
            /\ md.font = Font(read.block)
            /\ md.font_size = FontSize(read.block)
            /\ md.is_header = IsSection(read.block)
            /\ md.is_subsection = IsSubsection(read.block)

\* whether this step read a block, and what the block read is by its font
\* size and its text
ReadsBlock == Len(blocksRead') = Len(blocksRead) + 1
BigFont(r) == FontSize(r.block) > 12
WithDigit(r) == HasDigit(r.text)
WithCheckMark(r) == HasCheckMark(r.text)

\* C18 as stated: the current subsection changes only when a block with a
\* large font and a check mark is processed, and the current section only
\* when a block with a large font and a digit is processed.
C18_StickyAsStated ==
    [][/\ current_subsection' # current_subsection =>
              (ReadsBlock /\ BigFont(LastRead(blocksRead'))
                          /\ WithCheckMark(LastRead(blocksRead')))
       /\ current_section' # current_section =>
              (ReadsBlock /\ BigFont(LastRead(blocksRead'))
                          /\ WithDigit(LastRead(blocksRead')))]_vars

\* C18, amended: the current section changes only when a section header
\* block (large font, a digit) is processed, and becomes its text; the
\* current subsection changes only when a block with a large font is
\* processed: a section header block resets it to None, a subsection header
\* block (a check mark) makes it the block's text. A block without a large
\* font and a skipped empty block leave both as they are.
C18_Sticky ==
    [][/\ current_section' # current_section =>
              /\ ReadsBlock /\ BigFont(LastRead(blocksRead'))
              /\ WithDigit(LastRead(blocksRead'))
              /\ current_section' = Strip(LastRead(blocksRead').text)
       /\ current_subsection' # current_subsection =>
              /\ ReadsBlock /\ BigFont(LastRead(blocksRead'))
              /\ \/ WithDigit(LastRead(blocksRead')) /\ current_subsection' = None
                 \/ /\ WithCheckMark(LastRead(blocksRead'))
                    /\ current_subsection' = Strip(LastRead(blocksRead').text)]_vars

\* a section header was processed after a subsection header and the
\* subsection is None again, and blocks that are no headers were read
C18_Witness ==
    /\ current_section # None /\ current_subsection = None
    /\ \E i, j \in 1..Len(blocksRead) :
           /\ i < j
           /\ BigFont(blocksRead[i]) /\ WithCheckMark(blocksRead[i]) /\ ~WithDigit(blocksRead[i])
           /\ BigFont(blocksRead[j]) /\ WithDigit(blocksRead[j])
    /\ \E i \in 1..Len(blocksRead) : ~BigFont(blocksRead[i])

\* C19: every block with a font size above 12 and a check mark in its text
\* is processed as a subsection header, with or without a digit in the
\* text: its metadata say is_subsection and the current subsection becomes
\* its text.
C19_CheckMarkIsSubsection ==
    [][(ReadsBlock /\ BigFont(LastRead(blocksRead')) /\ WithCheckMark(LastRead(blocksRead')))
       => /\ chunk_metadata'.is_subsection
          /\ current_subsection' = Strip(LastRead(blocksRead').text)]_vars

(***************************************************************************)
(* Entries that lack a key, checked under SpecRag.                         *)
(***************************************************************************)
\* C20: no query raises because a retrieved entry lacks a key: whenever the
\* embedding of the query was obtained and search returned entries, the
\* query returns a string.
C20_MissingKeySkipped ==
    (ragCall.op = "query" /\ ragCall.embedded /\ ragCall.retrieved # {}) =>
        (ragCall.exc = "none" /\ ragCall.response # NoResponse)

====
